---- MODULE Spec2Model ----
(***************************************************************************)
(* Model of the natural-language-to-SQL pipeline of xindata_test:          *)
(* src/cli.py (ask, answer, demo), src/llm.py (GeminiLLMClient) and        *)
(* src/db.py (validate_sql, query_db, get_table_schema_str).               *)
(*                                                                         *)
(* Strings are sequences of one-character strings, so that str.strip(),    *)
(* str.lower(), str.startswith() and slicing are computed, not assumed.    *)
(***************************************************************************)
EXTENDS Naturals, Sequences, FiniteSets, TLC

VARIABLES
    cmd,        \* the entry point running: "none", "ask", "answer", "demo", "init",
                \* "validate_sql"
    pc,         \* its position: "idle", "classify", "generate", "validate", "execute",
                \* "init_db", "import_delete", "import_insert", "done"
    question,   \* the question being processed
    qidx,       \* demo: index of the question in its list (0 outside demo)
    intent,     \* value returned by detect_intent for the question
    intentExc,  \* exception detect_intent raised to its caller ("none" if it returned)
    sql,        \* the local variable sql of the command / argument of validate_sql
    genRet,     \* the values generate_sql has returned, in order
    genExc,     \* exception the last generate_sql call raised ("none" if it returned)
    vres,       \* outcome of the last validate_sql call
    validated,  \* statements for which validate_sql has returned True
    executed,   \* statements passed to query_db, in order
    out,        \* what click.echo has printed, in order
    auditLog,   \* the records of llm_results.log, in order
    calls,      \* the calls made to the language model and to the store, in order
    escaped,    \* exception that left the command ("none" if none)
    intentResp, \* the model's response to the last intent prompt
    sqlResp,    \* the model's response to the last SQL prompt
    dryRun,     \* how the last EXPLAIN ended: "ok", "error", "none" if none was sent
    dbOk,       \* whether the store file can be opened
    logOk,      \* whether llm_results.log can be written
    table,      \* the table freelancer_earnings: whether it exists, and its rows
    connLog,    \* the store connections opened and closed, in order
    imports,    \* how many times the init command has been started
    observed    \* what the queries of a second process saw while init was running

vars == <<cmd, pc, question, qidx, intent, intentExc, sql, genRet, genExc, vres,
          validated, executed, out, auditLog, calls, escaped, intentResp, sqlResp,
          dryRun, dbOk, logOk, table, connLog, imports, observed>>

(***************************************************************************)
(* Bounds of the model.                                                    *)
(***************************************************************************)
\* longest tail appended to a keyword when enumerating statements for validate_sql
MaxTail == 3
\* longest question given to ask and answer
MaxQ == 2
\* how many of demo's questions are processed
DemoLen == 2
\* how many times the init command is run in a row
MaxImports == 2
MaxObserved == 2

(***************************************************************************)
(* Python str operations.                                                  *)
(***************************************************************************)
UpperCase == <<"A","B","C","D","E","F","G","H","I","J","K","L","M",
               "N","O","P","Q","R","S","T","U","V","W","X","Y","Z">>
LowerCase == <<"a","b","c","d","e","f","g","h","i","j","k","l","m",
               "n","o","p","q","r","s","t","u","v","w","x","y","z">>

\* the characters str.strip() removes
Whitespace == {" ", "\n", "\t"}

LowerChar(c) ==
    IF \E i \in 1..Len(UpperCase) : UpperCase[i] = c
    THEN LowerCase[CHOOSE i \in 1..Len(UpperCase) : UpperCase[i] = c]
    ELSE c

\* str.lower()
Lower(s) == [i \in 1..Len(s) |-> LowerChar(s[i])]

RECURSIVE LStrip(_)
LStrip(s) == IF s # <<>> /\ Head(s) \in Whitespace THEN LStrip(Tail(s)) ELSE s

RECURSIVE RStrip(_)
RStrip(s) ==
    IF s # <<>> /\ s[Len(s)] \in Whitespace THEN RStrip(SubSeq(s, 1, Len(s) - 1)) ELSE s

\* str.strip()
Strip(s) == RStrip(LStrip(s))

\* str.startswith(p)
StartsWith(s, p) == Len(s) >= Len(p) /\ SubSeq(s, 1, Len(p)) = p

\* c in s
Contains(s, c) == \E i \in 1..Len(s) : s[i] = c

\* s[:-1]
ButLast(s) == SubSeq(s, 1, Len(s) - 1)

(***************************************************************************)
(* Literals.                                                               *)
(***************************************************************************)
kwSelect == <<"s","e","l","e","c","t">>
SelectOne == <<"S","E","L","E","C","T"," ","1">>
DropTable == <<"D","R","O","P"," ","T","A","B","L","E"," ","t">>

\* the leading words statements are enumerated with
Keywords ==
    { <<>>,
      kwSelect,
      kwSelect \o <<" ">>,
      <<"S","E","L","E","C","T">>,
      <<"S","e","l","e","c","t">>,
      <<"s","e","l","e","c">>,
      <<"d","r","o","p">>,
      <<"x","s","e","l","e","c","t">> }

Leads == { <<>>, <<"\n">> }

TailChars == {" ", ";", "1", "x"}

SeqsUpTo(S, n) == UNION { [1..k -> S] : k \in 0..n }

\* the statements validate_sql is called with directly
Statements ==
    { l \o k \o t : l \in Leads, k \in Keywords, t \in SeqsUpTo(TailChars, MaxTail) }

(***************************************************************************)
(* The store (SQLite through aiosqlite), as far as the code can observe it.*)
(***************************************************************************)
Digits == {"0", "1", "2", "3", "4", "5", "6", "7", "8", "9"}
Letters == { LowerCase[i] : i \in 1..Len(LowerCase) }

\* the words of s, split at whitespace
RECURSIVE Words(_)
Words(s) ==
    LET t == LStrip(s)
        n == IF \E i \in 1..Len(t) : t[i] \in Whitespace
             THEN (CHOOSE i \in 1..Len(t) :
                      /\ t[i] \in Whitespace
                      /\ \A j \in 1..(i - 1) : t[j] \notin Whitespace) - 1
             ELSE Len(t)
    IN IF t = <<>> THEN <<>>
       ELSE <<SubSeq(t, 1, n)>> \o Words(SubSeq(t, n + 1, Len(t)))

IsNumber(w) == w # <<>> /\ \A i \in 1..Len(w) : w[i] \in Digits

IsName(w) ==
    /\ w # <<>>
    /\ w[1] \in Letters
    /\ \A i \in 1..Len(w) : w[i] \in Letters \cup Digits
    /\ w # kwSelect

\* what SQLite makes of the text s of one execute() call:
\*   "literal"  a SELECT of a number, valid on any database that opens
\*   "column"   a SELECT of a name, valid iff the name is known to the database
\*   "ddl"      DROP TABLE of a name, valid iff the table exists
\*   "invalid"  anything else of this model's texts, a second statement included
SqlClass(s) ==
    LET t == Lower(Strip(s))
        core == IF t # <<>> /\ t[Len(t)] = ";" THEN ButLast(t) ELSE t
        w == Words(core)
    IN IF Contains(core, ";") THEN "invalid"
       ELSE IF Len(w) \in {2, 3} /\ w[1] = kwSelect /\ IsNumber(w[2])
               /\ (Len(w) = 3 => IsName(w[3]))
       THEN "literal"
       ELSE IF Len(w) \in {2, 3} /\ w[1] = kwSelect /\ IsName(w[2])
               /\ (Len(w) = 3 => IsName(w[3]))
       THEN "column"
       ELSE IF Len(w) = 3 /\ w[1] = <<"d","r","o","p">> /\ w[2] = <<"t","a","b","l","e">>
               /\ IsName(w[3])
       THEN "ddl"
       ELSE "invalid"

\* what conn.execute('EXPLAIN ' + s) can do: "ok" or "error"
DryRunOutcomes(s, ok) ==
    IF ~ok \/ SqlClass(s) = "invalid" THEN {"error"}
    ELSE IF SqlClass(s) = "literal" THEN {"ok"}
    ELSE {"ok", "error"}

(***************************************************************************)
(* validate_sql                                                            *)
(***************************************************************************)
\* variant: the keyword is looked for anywhere in the text ('select' in sql_stripped)
ValidateSqlKeywordAnywhere(s, explain) ==
    LET sql_stripped == Lower(Strip(s)) IN
    IF ~(\E i \in 1..Len(sql_stripped) :
            StartsWith(SubSeq(sql_stripped, i, Len(sql_stripped)), kwSelect))
    THEN [res |-> "ValueError", msg |-> "only_select", dry |-> FALSE, explained |-> <<>>]
    ELSE IF Contains(ButLast(sql_stripped), ";")
    THEN [res |-> "ValueError", msg |-> "one_statement", dry |-> FALSE, explained |-> <<>>]
    ELSE IF explain = "ok"
    THEN [res |-> "True", msg |-> "", dry |-> TRUE, explained |-> s]
    ELSE [res |-> "DatabaseError", msg |-> "", dry |-> TRUE, explained |-> s]

\* variant: the separator is looked for in the whole text (';' in sql_stripped)
ValidateSqlWholeScan(s, explain) ==
    LET sql_stripped == Lower(Strip(s)) IN
    IF ~StartsWith(sql_stripped, kwSelect)
    THEN [res |-> "ValueError", msg |-> "only_select", dry |-> FALSE, explained |-> <<>>]
    ELSE IF Contains(sql_stripped, ";")
    THEN [res |-> "ValueError", msg |-> "one_statement", dry |-> FALSE, explained |-> <<>>]
    ELSE IF explain = "ok"
    THEN [res |-> "True", msg |-> "", dry |-> TRUE, explained |-> s]
    ELSE [res |-> "DatabaseError", msg |-> "", dry |-> TRUE, explained |-> s]

\* variant: the DatabaseError of the dry-run is logged and not re-raised
ValidateSqlSwallow(s, explain) ==
    LET sql_stripped == Lower(Strip(s)) IN
    IF ~StartsWith(sql_stripped, kwSelect)
    THEN [res |-> "ValueError", msg |-> "only_select", dry |-> FALSE, explained |-> <<>>]
    ELSE IF Contains(ButLast(sql_stripped), ";")
    THEN [res |-> "ValueError", msg |-> "one_statement", dry |-> FALSE, explained |-> <<>>]
    ELSE [res |-> "True", msg |-> "", dry |-> TRUE, explained |-> s]

\* variant: the dry-run is issued before the two textual rules
ValidateSqlDryRunFirst(s, explain) ==
    LET sql_stripped == Lower(Strip(s)) IN
    IF explain # "ok"
    THEN [res |-> "DatabaseError", msg |-> "", dry |-> TRUE, explained |-> s]
    ELSE IF ~StartsWith(sql_stripped, kwSelect)
    THEN [res |-> "ValueError", msg |-> "only_select", dry |-> TRUE, explained |-> s]
    ELSE IF Contains(ButLast(sql_stripped), ";")
    THEN [res |-> "ValueError", msg |-> "one_statement", dry |-> TRUE, explained |-> s]
    ELSE [res |-> "True", msg |-> "", dry |-> TRUE, explained |-> s]

\* the outcome of validate_sql(s) when the dry-run, if issued, ends as explain:
\* res is "True" or the exception raised, msg the text of a ValueError,
\* dry whether EXPLAIN was sent to the store, explained the text sent
ValidateSql(s, explain) ==
    LET sql_stripped == Lower(Strip(s)) IN
    IF ~StartsWith(sql_stripped, kwSelect)
    THEN [res |-> "ValueError", msg |-> "only_select", dry |-> FALSE, explained |-> <<>>]
    ELSE IF Contains(ButLast(sql_stripped), ";")
    THEN [res |-> "ValueError", msg |-> "one_statement", dry |-> FALSE, explained |-> <<>>]
    ELSE IF explain = "ok"
    THEN [res |-> "True", msg |-> "", dry |-> TRUE, explained |-> s]
    ELSE [res |-> "DatabaseError", msg |-> "", dry |-> TRUE, explained |-> s]

NoValidation == [res |-> "none", msg |-> "", dry |-> FALSE, explained |-> <<>>]

(***************************************************************************)
(* The language model (google-genai), as far as the code can observe it.   *)
(***************************************************************************)
iSql == <<"s","q","l">>
iSmalltalk == <<"s","m","a","l","l","t","a","l","k">>
iHelp == <<"h","e","l","p">>
iUnknown == <<"u","n","k","n","o","w","n">>

\* no prompt has been sent yet
NoResponse == [kind |-> "nocall", text |-> <<>>]
\* generate_content raised
CallError == [kind |-> "error", text |-> <<>>]
\* generate_content returned, response.parsed is None (the JSON did not fit the schema)
Unparsed == [kind |-> "none", text |-> <<>>]
\* generate_content returned a response whose parsed field holds text
Parsed(t) == [kind |-> "parsed", text |-> t]

\* what the model may answer to the intent prompt
IntentTexts ==
    { iSql,
      <<" ">> \o <<"S","Q","L">> \o <<"\n">>,
      iSmalltalk,
      iHelp,
      iUnknown,
      <<"j","o","k","e">> }

IntentResponses == {CallError, Unparsed} \cup { Parsed(t) : t \in IntentTexts }

\* what the model may answer to the SQL prompt
SqlTexts ==
    { SelectOne,
      <<" ">> \o Lower(SelectOne) \o <<";", "\n">>,
      kwSelect \o <<" ", "x">>,
      DropTable,
      SelectOne \o <<";", " ">> \o DropTable,
      <<" ">> }

SqlResponses == {CallError, Unparsed} \cup { Parsed(t) : t \in SqlTexts }

(***************************************************************************)
(* GeminiLLMClient                                                         *)
(***************************************************************************)
\* _generate_content_with_schema: any exception of the call is re-raised as
\* Exception; otherwise response.parsed is returned, None included
GenerateContentWithSchema(resp) ==
    IF resp.kind = "error"
    THEN [exc |-> "Exception", parsed |-> Unparsed]
    ELSE [exc |-> "none", parsed |-> resp]

\* a record of llm_results.log
LogRecord(q, kind, text) == [q |-> q, kind |-> kind, text |-> text]

\* variant: detect_intent without its except clause
DetectIntentNoCatch(q, resp, writeOk) ==
    LET r == GenerateContentWithSchema(resp) IN
    IF r.exc # "none"
    THEN [exc |-> r.exc, ret |-> <<>>, log |-> <<>>]
    ELSE IF r.parsed.kind = "none"
    THEN [exc |-> "AttributeError", ret |-> <<>>, log |-> <<>>]
    ELSE LET i == Lower(Strip(r.parsed.text)) IN
         [exc |-> "none", ret |-> i,
          log |-> IF writeOk THEN <<LogRecord(q, "intent", i)>> ELSE <<>>]

\* detect_intent(q) when the model answers resp and the log write succeeds
\* iff writeOk: exc is the exception raised to the caller, ret the value
\* returned, log the records appended to llm_results.log
DetectIntent(q, resp, writeOk) ==
    LET r == GenerateContentWithSchema(resp) IN
    IF r.exc # "none" \/ r.parsed.kind = "none"
    THEN [exc |-> "none", ret |-> iUnknown, log |-> <<>>]
    ELSE LET i == Lower(Strip(r.parsed.text)) IN
         [exc |-> "none", ret |-> i,
          log |-> IF writeOk THEN <<LogRecord(q, "intent", i)>> ELSE <<>>]

\* variant: generate_sql re-raises the failure of the model call
GenerateSqlPropagate(q, schemaOk, resp, writeOk) ==
    IF ~schemaOk
    THEN [exc |-> "SchemaError", ret |-> <<>>, fallback |-> FALSE, llm |-> FALSE,
          log |-> <<>>]
    ELSE LET r == GenerateContentWithSchema(resp) IN
         IF r.exc # "none"
         THEN [exc |-> r.exc, ret |-> <<>>, fallback |-> FALSE, llm |-> TRUE,
               log |-> <<>>]
         ELSE IF r.parsed.kind = "none"
         THEN [exc |-> "none", ret |-> SelectOne, fallback |-> TRUE, llm |-> TRUE,
               log |-> <<>>]
         ELSE LET s == Strip(r.parsed.text) IN
              [exc |-> "none", ret |-> s, fallback |-> FALSE, llm |-> TRUE,
               log |-> IF writeOk THEN <<LogRecord(q, "sql", s)>> ELSE <<>>]

\* variant: generate_sql logs result.sql, the text before strip()
GenerateSqlLogsRaw(q, schemaOk, resp, writeOk) ==
    IF ~schemaOk
    THEN [exc |-> "SchemaError", ret |-> <<>>, fallback |-> FALSE, llm |-> FALSE,
          log |-> <<>>]
    ELSE LET r == GenerateContentWithSchema(resp) IN
         IF r.exc # "none" \/ r.parsed.kind = "none"
         THEN [exc |-> "none", ret |-> SelectOne, fallback |-> TRUE, llm |-> TRUE,
               log |-> <<>>]
         ELSE LET s == Strip(r.parsed.text) IN
              [exc |-> "none", ret |-> s, fallback |-> FALSE, llm |-> TRUE,
               log |-> IF writeOk THEN <<LogRecord(q, "sql", r.parsed.text)>> ELSE <<>>]

\* variant: a failed write of the log record raises inside the try block, so
\* the except clause returns the fallback
GenerateSqlLogFailureFallsBack(q, schemaOk, resp, writeOk) ==
    IF ~schemaOk
    THEN [exc |-> "SchemaError", ret |-> <<>>, fallback |-> FALSE, llm |-> FALSE,
          log |-> <<>>]
    ELSE LET r == GenerateContentWithSchema(resp) IN
         IF r.exc # "none" \/ r.parsed.kind = "none" \/ ~writeOk
         THEN [exc |-> "none", ret |-> SelectOne, fallback |-> TRUE, llm |-> TRUE,
               log |-> <<>>]
         ELSE LET s == Strip(r.parsed.text) IN
              [exc |-> "none", ret |-> s, fallback |-> FALSE, llm |-> TRUE,
               log |-> <<LogRecord(q, "sql", s)>>]

\* variant: the except clause of generate_sql returns the empty string
GenerateSqlEmptyFallback(q, schemaOk, resp, writeOk) ==
    IF ~schemaOk
    THEN [exc |-> "SchemaError", ret |-> <<>>, fallback |-> FALSE, llm |-> FALSE,
          log |-> <<>>]
    ELSE LET r == GenerateContentWithSchema(resp) IN
         IF r.exc # "none" \/ r.parsed.kind = "none"
         THEN [exc |-> "none", ret |-> <<>>, fallback |-> TRUE, llm |-> TRUE,
               log |-> <<>>]
         ELSE LET s == Strip(r.parsed.text) IN
              [exc |-> "none", ret |-> s, fallback |-> FALSE, llm |-> TRUE,
               log |-> IF writeOk THEN <<LogRecord(q, "sql", s)>> ELSE <<>>]

\* generate_sql(q) when the schema lookup succeeds iff schemaOk, the model
\* answers resp and the log write succeeds iff writeOk: fallback tells whether
\* the value returned is the fixed 'SELECT 1', llm whether the model was called
GenerateSql(q, schemaOk, resp, writeOk) ==
    IF ~schemaOk
    THEN [exc |-> "SchemaError", ret |-> <<>>, fallback |-> FALSE, llm |-> FALSE,
          log |-> <<>>]
    ELSE LET r == GenerateContentWithSchema(resp) IN
         IF r.exc # "none" \/ r.parsed.kind = "none"
         THEN [exc |-> "none", ret |-> SelectOne, fallback |-> TRUE, llm |-> TRUE,
               log |-> <<>>]
         ELSE LET s == Strip(r.parsed.text) IN
              [exc |-> "none", ret |-> s, fallback |-> FALSE, llm |-> TRUE,
               log |-> IF writeOk THEN <<LogRecord(q, "sql", s)>> ELSE <<>>]

(***************************************************************************)
(* query_db                                                                *)
(***************************************************************************)
\* the rows the table may hold before a command runs
RowSets == { <<>>, <<1, 2>> }

\* the table with rows r / no table (before init, after DROP TABLE)
Table(r) == [exists |-> TRUE, rows |-> r]
NoTable == [exists |-> FALSE, rows |-> <<>>]

\* variant: the connection is closed on the success path only
ConnScopeLeaksOnError(op, canOpen, failed) ==
    IF ~canOpen THEN <<>>
    ELSE IF failed THEN << [op |-> op, ev |-> "open"] >>
    ELSE << [op |-> op, ev |-> "open"], [op |-> op, ev |-> "close"] >>

\* async with aiosqlite.connect(...): the connection events of operation op,
\* which opens a connection iff canOpen and whose body raises iff failed
ConnScope(op, canOpen, failed) ==
    IF ~canOpen THEN <<>>
    ELSE << [op |-> op, ev |-> "open"], [op |-> op, ev |-> "close"] >>

\* what query_db(s) can do on table t: exc is the exception it re-raises, rows
\* its result, table the table afterwards (DROP TABLE runs in autocommit)
QueryOutcomes(s, ok, t) ==
    LET fail == [exc |-> "DatabaseError", rows |-> <<>>, table |-> t] IN
    IF ~ok \/ SqlClass(s) = "invalid" THEN {fail}
    ELSE IF SqlClass(s) = "literal" THEN { [exc |-> "none", rows |-> <<1>>, table |-> t] }
    ELSE IF ~t.exists THEN {fail}
    ELSE IF SqlClass(s) = "ddl" THEN { [exc |-> "none", rows |-> <<>>, table |-> NoTable] }
    ELSE { fail, [exc |-> "none", rows |-> t.rows, table |-> t] }

(***************************************************************************)
(* init_db and import_csv                                                  *)
(***************************************************************************)
\* the rows of the CSV file
CsvRows == <<2, 3>>

\* CREATE TABLE IF NOT EXISTS, committed
InitDb(t) == IF t.exists THEN t ELSE Table(<<>>)

\* the statement a second process queries the table with
ObserverSql == kwSelect \o <<" ", "x">>

\* variant: import_csv without its DELETE
ImportDeleteKeepsRows(t) == t

\* DELETE FROM freelancer_earnings, committed
ImportDelete(t) == Table(<<>>)

\* one INSERT per row of the CSV, then the commit
ImportInsert(t, rows) == Table(t.rows \o rows)

(***************************************************************************)
(* The commands of src/cli.py                                              *)
(***************************************************************************)
\* variant: the blank check without strip() (not question)
IsBlankNoStrip(q) == q = <<>>

\* not question.strip()
IsBlank(q) == Strip(q) = <<>>

\* variant: the command executes the normalised copy of the statement
QueryTextNormalised(s) == Lower(Strip(s))

\* the statement a command hands to query_db: its local variable sql
QueryText(s) == s

\* the questions ask and answer are invoked with
Questions == SeqsUpTo({" ", "q"}, MaxQ)

\* demo's hard-coded questions, none of them blank
DemoQuestion(i) == [j \in 1..i |-> "q"]

\* one click.echo: tag names the message, text and rows and err are what the
\* f-string interpolates, nl tells whether a newline is appended (demo)
Echo(tag, text, rows, err) ==
    [tag |-> tag, text |-> text, rows |-> rows, err |-> err, nl |-> cmd = "demo" /\ tag # "Question"]

Msg(tag) == Echo(tag, <<>>, <<>>, "")
ErrorMsg(e) == Echo("Error", <<>>, <<>>, e)

\* the message of the branch taken on an intent other than 'sql'
IntentMsg(i) ==
    IF i = iSmalltalk THEN Msg("INFORMAL_MSG")
    ELSE IF i = iHelp THEN Msg("HELP_MSG")
    ELSE Msg("UNKNOWN_INTENT_MSG")

\* variant: every intent without a canned answer is treated as a data question
IsSqlIntentByDefault(i) == i \notin {iSmalltalk, iHelp}

\* intent == 'sql'
IsSqlIntent(i) == i = iSql

\* what command c echoes once generate_sql has returned s
SqlEcho(c, s) == IF c = "ask" THEN <<Echo("SQL", s, <<>>, "")>> ELSE <<>>

\* variant: the except clause echoes the exception of validate_sql
RejectionEchoLeaks(v) == IF v.msg # "" THEN Echo("Error", <<>>, <<>>, v.msg) ELSE ErrorMsg(v.res)

\* what the except clause around validate_sql echoes for outcome v
RejectionEcho(v) == Msg("INVALID_SQL_MSG")

\* variant: the except clause around validate_sql does not return
AfterRejectionFallsThrough == "execute"

\* where the command stands after that except clause: it returns
AfterRejection == "done"

\* the end of the processing of a question, having printed outs: ask and
\* answer return, demo goes on to its next question
Finish(outs) ==
    IF cmd = "demo" /\ qidx < DemoLen
    THEN /\ qidx' = qidx + 1
         /\ question' = DemoQuestion(qidx + 1)
         /\ out' = out \o outs \o <<Echo("Question", DemoQuestion(qidx + 1), <<>>, "")>>
         /\ pc' = "classify"
    ELSE /\ pc' = "done"
         /\ out' = out \o outs
         /\ UNCHANGED <<qidx, question>>

Init ==
    /\ cmd = "none"
    /\ pc = "idle"
    /\ question = <<>>
    /\ qidx = 0
    /\ intent = <<>>
    /\ intentExc = "none"
    /\ sql = <<>>
    /\ genRet = <<>>
    /\ genExc = "none"
    /\ vres = NoValidation
    /\ validated = {}
    /\ executed = <<>>
    /\ out = <<>>
    /\ auditLog \in { <<>>, <<LogRecord(<<"q">>, "sql", SelectOne)>> }
    /\ calls = <<>>
    /\ escaped = "none"
    /\ intentResp = NoResponse
    /\ sqlResp = NoResponse
    /\ dryRun = "none"
    /\ dbOk \in BOOLEAN
    /\ logOk \in BOOLEAN
    /\ table \in {NoTable} \cup { Table(r) : r \in RowSets }
    /\ connLog = <<>>
    /\ imports = 0
    /\ observed = <<>>

\* the start of ask and of answer: the blank check, then get_llm_client()
Begin(c, q) ==
    /\ pc = "idle"
    /\ cmd' = c
    /\ question' = q
    /\ IF IsBlank(q)
       THEN /\ out' = Append(out, [Msg("EMPTY_QUESTION_MSG") EXCEPT !.nl = FALSE])
            /\ pc' = "done"
            /\ UNCHANGED calls
       ELSE \E clientOk \in BOOLEAN :
            /\ calls' = Append(calls, "get_llm_client")
            /\ IF clientOk
               THEN pc' = "classify" /\ UNCHANGED out
               ELSE /\ pc' = "done"
                    /\ out' = Append(out, [ErrorMsg("ClientError") EXCEPT !.nl = FALSE])
    /\ UNCHANGED <<qidx, intent, intentExc, sql, genRet, genExc, vres, validated,
                   executed, auditLog, escaped, intentResp, sqlResp, dryRun, dbOk, logOk,
                   table, connLog, imports, observed>>

Ask(q) == Begin("ask", q)

Answer(q) == Begin("answer", q)

\* the start of demo: get_llm_client() outside any try, then the first question
Demo ==
    /\ pc = "idle"
    /\ cmd' = "demo"
    /\ calls' = Append(calls, "get_llm_client")
    /\ \E clientOk \in BOOLEAN :
       IF clientOk
       THEN /\ qidx' = 1
            /\ question' = DemoQuestion(1)
            /\ out' = Append(out, [tag |-> "Question", text |-> DemoQuestion(1),
                                   rows |-> <<>>, err |-> "", nl |-> FALSE])
            /\ pc' = "classify"
            /\ UNCHANGED escaped
       ELSE /\ escaped' = "ClientError"
            /\ pc' = "done"
            /\ UNCHANGED <<qidx, question, out>>
    /\ UNCHANGED <<intent, intentExc, sql, genRet, genExc, vres, validated,
                   executed, auditLog, intentResp, sqlResp, dryRun, dbOk, logOk,
                   table, connLog, imports, observed>>

\* a direct call of validate_sql(s), as the tests of src/db.py make
CallValidateSql ==
    /\ pc = "idle"
    /\ cmd' = "validate_sql"
    /\ \E s \in Statements : sql' = s
    /\ pc' = "validate"
    /\ UNCHANGED <<question, qidx, intent, intentExc, genRet, genExc, vres, validated,
                   executed, out, auditLog, calls, escaped, intentResp, sqlResp,
                   dryRun, dbOk, logOk, table, connLog, imports, observed>>

\* intent = await llm.detect_intent(question), and the branch on the intent
DetectIntentStep ==
    /\ pc = "classify"
    /\ \E resp \in IntentResponses :
       LET d == DetectIntent(question, resp, logOk) IN
       /\ calls' = calls \o <<"detect_intent", "generate_content">>
       /\ auditLog' = auditLog \o d.log
       /\ intentExc' = d.exc
       /\ intentResp' = resp
       /\ IF d.exc # "none"
          THEN /\ Finish(<<ErrorMsg(d.exc)>>)
               /\ UNCHANGED intent
          ELSE /\ intent' = d.ret
               /\ IF IsSqlIntent(d.ret)
                  THEN pc' = "generate" /\ UNCHANGED <<qidx, question, out>>
                  ELSE Finish(<<IntentMsg(d.ret)>>)
    /\ UNCHANGED <<cmd, sql, genRet, genExc, vres, validated, executed, escaped,
                   sqlResp, dryRun, dbOk, logOk, table, connLog, imports, observed>>

\* sql = await llm.generate_sql(question), and ask's echo of the statement
GenerateSqlStep ==
    /\ pc = "generate"
    /\ \E resp \in SqlResponses :
       LET g == GenerateSql(question, dbOk, resp, logOk) IN
       /\ calls' = calls \o <<"generate_sql", "get_table_schema_str">>
                         \o (IF g.llm THEN <<"generate_content">> ELSE <<>>)
       /\ auditLog' = auditLog \o g.log
       /\ genExc' = g.exc
       /\ sqlResp' = IF g.llm THEN resp ELSE sqlResp
       /\ connLog' = connLog \o ConnScope("get_table_schema_str", dbOk, FALSE)
       /\ IF g.exc # "none"
          THEN /\ Finish(<<ErrorMsg(g.exc)>>)
               /\ UNCHANGED <<sql, genRet>>
          ELSE /\ sql' = g.ret
               /\ genRet' = Append(genRet, [q |-> question, text |-> g.ret,
                                            fallback |-> g.fallback])
               /\ pc' = IF cmd = "demo" THEN "execute" ELSE "validate"
               /\ out' = out \o SqlEcho(cmd, g.ret)
               /\ UNCHANGED <<qidx, question>>
    /\ UNCHANGED <<cmd, intent, intentExc, vres, validated, executed, escaped,
                   intentResp, dryRun, dbOk, logOk, table, imports, observed>>

\* await validate_sql(sql), and the except clause around it
ValidateSqlStep ==
    /\ pc = "validate"
    /\ \E e \in DryRunOutcomes(sql, dbOk) :
       LET v == ValidateSql(sql, e) IN
       /\ vres' = v
       /\ dryRun' = IF v.dry THEN e ELSE "none"
       /\ connLog' = connLog \o (IF v.dry THEN ConnScope("validate_sql", dbOk, e # "ok")
                                          ELSE <<>>)
       /\ calls' = calls \o <<"validate_sql">> \o (IF v.dry THEN <<"explain">> ELSE <<>>)
       /\ IF v.res = "True"
          THEN /\ validated' = validated \cup {sql}
               /\ pc' = IF cmd = "validate_sql" THEN "done" ELSE "execute"
               /\ UNCHANGED <<out, escaped>>
          ELSE /\ UNCHANGED validated
               /\ IF cmd = "validate_sql"
                  THEN pc' = "done" /\ escaped' = v.res /\ UNCHANGED out
                  ELSE /\ pc' = AfterRejection
                       /\ out' = Append(out, RejectionEcho(v))
                       /\ UNCHANGED escaped
    /\ UNCHANGED <<cmd, question, qidx, intent, intentExc, sql, genRet, genExc,
                   executed, auditLog, intentResp, sqlResp, dbOk, logOk, table, imports, observed>>

\* result = await query_db(sql), and the echo of the result
QueryDbStep ==
    /\ pc = "execute"
    /\ \E o \in QueryOutcomes(QueryText(sql), dbOk, table) :
       /\ executed' = Append(executed, QueryText(sql))
       /\ table' = o.table
       /\ connLog' = connLog \o ConnScope("query_db", dbOk, o.exc # "none")
       /\ calls' = Append(calls, "query_db")
       /\ IF o.exc = "none"
          THEN Finish(<<Echo(IF cmd = "ask" THEN "Result" ELSE "Answer", <<>>, o.rows, "")>>)
          ELSE Finish(<<ErrorMsg(o.exc)>>)
    /\ UNCHANGED <<cmd, intent, intentExc, sql, genRet, genExc, vres, validated,
                   auditLog, escaped, intentResp, sqlResp, dryRun, dbOk, logOk, imports, observed>>

\* the start of the init command; it may be run again once it has ended
InvokeInit ==
    /\ pc = "idle" \/ (cmd = "init" /\ pc = "done")
    /\ imports < MaxImports
    /\ cmd' = "init"
    /\ pc' = "init_db"
    /\ imports' = imports + 1
    /\ UNCHANGED <<question, qidx, intent, intentExc, sql, genRet, genExc, vres,
                   validated, executed, out, auditLog, calls, escaped, intentResp,
                   sqlResp, dryRun, dbOk, logOk, table, connLog, observed>>

\* await init_db(): the CSV is read, the table created unless it exists
InitDbStep ==
    /\ pc = "init_db"
    /\ calls' = Append(calls, "init_db")
    /\ \E csvOk \in BOOLEAN :
       IF csvOk /\ dbOk
       THEN /\ table' = InitDb(table)
            /\ connLog' = connLog \o ConnScope("init_db", TRUE, FALSE)
            /\ pc' = "import_delete"
            /\ UNCHANGED out
       ELSE /\ out' = Append(out, ErrorMsg(IF csvOk THEN "DatabaseError" ELSE "CsvError"))
            /\ pc' = "done"
            /\ UNCHANGED <<table, connLog>>
    /\ UNCHANGED <<cmd, question, qidx, intent, intentExc, sql, genRet, genExc, vres,
                   validated, executed, auditLog, escaped, intentResp, sqlResp,
                   dryRun, dbOk, logOk, imports, observed>>

\* await import_csv(), up to its first commit: the CSV is read, a connection
\* opened, the rows of the table deleted
ImportDeleteStep ==
    /\ pc = "import_delete"
    /\ calls' = Append(calls, "import_csv")
    /\ \E csvOk \in BOOLEAN :
       IF csvOk /\ dbOk
       THEN /\ table' = ImportDelete(table)
            /\ connLog' = Append(connLog, Head(ConnScope("import_csv", TRUE, FALSE)))
            /\ pc' = "import_insert"
            /\ UNCHANGED out
       ELSE /\ out' = Append(out, ErrorMsg(IF csvOk THEN "DatabaseError" ELSE "CsvError"))
            /\ pc' = "done"
            /\ UNCHANGED <<table, connLog>>
    /\ UNCHANGED <<cmd, question, qidx, intent, intentExc, sql, genRet, genExc, vres,
                   validated, executed, auditLog, escaped, intentResp, sqlResp,
                   dryRun, dbOk, logOk, imports, observed>>

\* the rest of import_csv: the rows are inserted and committed, or an INSERT
\* fails and the rows inserted so far are rolled back as the connection closes
ImportInsertStep ==
    /\ pc = "import_insert"
    /\ \E inserted \in 0..Len(CsvRows) :
       LET failed == inserted < Len(CsvRows) IN
       /\ table' = IF failed THEN table ELSE ImportInsert(table, CsvRows)
       /\ connLog' = connLog \o Tail(ConnScope("import_csv", TRUE, failed))
       /\ out' = Append(out, IF failed THEN ErrorMsg("DatabaseError") ELSE Msg("INIT_DONE_MSG"))
    /\ pc' = "done"
    /\ UNCHANGED <<cmd, question, qidx, intent, intentExc, sql, genRet, genExc, vres,
                   validated, executed, auditLog, calls, escaped, intentResp, sqlResp,
                   dryRun, dbOk, logOk, imports, observed>>

\* query_db(ObserverSql) of a second process of the program (its own
\* connection, opened and closed within the call) while the init command of
\* this one is running or has ended: it reads the committed table
ConcurrentQuery ==
    /\ cmd = "init"
    /\ Len(observed) < MaxObserved
    /\ \E o \in QueryOutcomes(ObserverSql, dbOk, table) :
       observed' = Append(observed,
                          [at |-> pc, exc |-> o.exc, rows |-> o.rows,
                           conn |-> ConnScope("query_db", dbOk, o.exc # "none")])
    /\ UNCHANGED <<cmd, pc, question, qidx, intent, intentExc, sql, genRet, genExc,
                   vres, validated, executed, out, auditLog, calls, escaped,
                   intentResp, sqlResp, dryRun, dbOk, logOk, table, connLog, imports>>

Next ==
    \/ \E q \in Questions : Ask(q)
    \/ \E q \in Questions : Answer(q)
    \/ Demo
    \/ CallValidateSql
    \/ DetectIntentStep
    \/ GenerateSqlStep
    \/ ValidateSqlStep
    \/ QueryDbStep
    \/ InvokeInit
    \/ InitDbStep
    \/ ImportDeleteStep
    \/ ImportInsertStep
    \/ ConcurrentQuery

Spec == Init /\ [][Next]_vars

(***************************************************************************)
(* Properties.                                                             *)
(***************************************************************************)
Last(s) == s[Len(s)]

\* the text, trimmed and lower-cased, begins with 'select'
BeginsWithSelect(s) == StartsWith(Lower(Strip(s)), kwSelect)

\* every character of q is whitespace (the empty question included)
WhitespaceOnly(q) == \A i \in 1..Len(q) : q[i] \in Whitespace

\* a ';' stands in t somewhere before its final character
SeparatorBeforeEnd(t) == \E i \in 1..(Len(t) - 1) : t[i] = ";"

\* validate_sql has been called on sql and has ended
ValidationEnded == vres.res # "none"

EmptyQuestionEcho ==
    [tag |-> "EMPTY_QUESTION_MSG", text |-> <<>>, rows |-> <<>>, err |-> "", nl |-> FALSE]

\* C1: in ask, answer and demo, a statement is passed to query_db only after
\* validate_sql has returned successfully for that same statement.
C1_ExecutedOnlyIfValidated ==
    \A i \in 1..Len(executed) : executed[i] \in validated

\* C2: for an empty or whitespace-only question, ask and answer print the
\* empty-question message and finish with no call to the language model
\* (client construction, detect_intent, generate_sql) nor to the store
\* (schema lookup, validate_sql, query_db).
C2_BlankQuestionNoCalls ==
    (cmd \in {"ask", "answer"} /\ WhitespaceOnly(question))
        => /\ pc = "done"
           /\ out = <<EmptyQuestionEcho>>
           /\ calls = <<>>
           /\ genRet = <<>>
           /\ executed = <<>>
           /\ ~ValidationEnded
           /\ intentResp = NoResponse /\ sqlResp = NoResponse

C2_Witness ==
    /\ cmd \in {"ask", "answer"}
    /\ question # <<>> /\ WhitespaceOnly(question)
    /\ pc = "done"

\* C3: a statement whose text, trimmed and lower-cased, does not begin with
\* 'select' (the empty and the whitespace-only statement included) makes
\* validate_sql fail with the ValueError of the keyword rule; it never succeeds.
C3_NonSelectRejected ==
    (ValidationEnded /\ ~BeginsWithSelect(sql))
        => /\ vres.res = "ValueError"
           /\ vres.msg = "only_select"
           /\ sql \notin validated

C3_Witness ==
    /\ ValidationEnded
    /\ sql # <<>> /\ WhitespaceOnly(sql)
    /\ vres.res = "ValueError"

\* C4 as stated: for a statement that begins with 'select', validate_sql fails
\* if a ';' occurs anywhere other than as the single final
\* character of the statement, and the separator rule does not reject a
\* statement whose only ';' is its final character.
C4_SeparatorOfStatement ==
    (ValidationEnded /\ BeginsWithSelect(sql))
        => /\ SeparatorBeforeEnd(sql) => vres.res # "True"
           /\ ~SeparatorBeforeEnd(sql) => vres.msg # "one_statement"

\* C4 as amended: for a statement that, trimmed and lower-cased, begins with
\* 'select', validate_sql fails with ValueError if a ';' occurs anywhere other
\* than as the single final character of the trimmed statement, and the
\* separator rule does not reject a statement whose only ';' is the final
\* character of the trimmed statement.
C4_SeparatorOfTrimmedStatement ==
    (ValidationEnded /\ BeginsWithSelect(sql))
        => /\ SeparatorBeforeEnd(Strip(sql))
                => (vres.res = "ValueError" /\ vres.msg = "one_statement")
           /\ ~SeparatorBeforeEnd(Strip(sql)) => vres.res # "ValueError"

C4_Witness ==
    /\ ValidationEnded
    /\ BeginsWithSelect(sql)
    /\ Last(Strip(sql)) = ";"
    /\ vres.res = "True"

\* C5: for a statement that passes the keyword and separator rules,
\* validate_sql succeeds exactly when the EXPLAIN of the statement succeeds: an
\* error of the dry-run is raised as the failure of the validation, and a
\* successful dry-run yields success.
C5_DryRunDecides ==
    (ValidationEnded /\ BeginsWithSelect(sql) /\ ~SeparatorBeforeEnd(Strip(sql)))
        => /\ vres.dry /\ vres.explained = sql
           /\ dryRun \in {"ok", "error"}
           /\ (vres.res = "True") <=> (dryRun = "ok")
           /\ (dryRun = "error") => (vres.res = "DatabaseError" /\ sql \notin validated)

C5_Witness ==
    /\ ValidationEnded
    /\ BeginsWithSelect(sql)
    /\ dbOk
    /\ dryRun = "error"
    /\ vres.res = "DatabaseError"

\* C6: on the sql path of ask and answer the text handed to query_db is the
\* very text generate_sql returned, and so is the text the dry-run explained:
\* validation inspects a trimmed, lower-cased copy and leaves the statement
\* as it was.
C6_ExecutedTextIsGeneratedText ==
    (cmd \in {"ask", "answer"} /\ genRet # <<>>)
        => /\ Len(genRet) = 1
           /\ sql = genRet[1].text
           /\ vres.dry => vres.explained = genRet[1].text
           /\ executed \in { <<>>, <<genRet[1].text>> }

C6_Witness ==
    /\ cmd \in {"ask", "answer"}
    /\ executed # <<>>
    /\ executed[1] = SelectOne
    /\ Lower(Strip(executed[1])) # executed[1]

\* C7: detect_intent never raises to its caller: when the model call fails or
\* the structured response is missing, it returns 'unknown'.
C7_DetectIntentNeverRaises ==
    /\ intentExc = "none"
    /\ intentResp.kind \in {"error", "none"} => intent = iUnknown

C7_Witness ==
    /\ intentResp.kind = "error"
    /\ intent = iUnknown
    /\ pc = "done"
    /\ Last(out).tag = "UNKNOWN_INTENT_MSG"

\* C8: the value detect_intent returns is one of sql, smalltalk, help and
\* unknown; an answer of the model outside the enumeration is returned as
\* 'unknown'.
C8_IntentInEnumeration ==
    intentResp.kind # "nocall" => intent \in {iSql, iSmalltalk, iHelp, iUnknown}

\* C9 as stated: generate_sql never raises to the command: on any failure of
\* a generation attempt (schema lookup, model call, malformed response) it
\* returns 'SELECT 1', so that, the intent being sql, ask and answer reach
\* validation.
C9_GenerateSqlNeverRaises ==
    /\ genExc = "none"
    /\ (cmd \in {"ask", "answer"} /\ intent = iSql /\ pc \notin {"classify", "generate"})
          => Contains(calls, "validate_sql") \/ pc = "validate"

\* C9 as amended: generate_sql raises only when the schema lookup fails, and
\* then without calling the model; when the lookup succeeds it never raises,
\* a failed model call or a missing structured response gives 'SELECT 1', and
\* ask and answer reach validation.
C9_GenerateSqlRaisesOnlySchemaError ==
    /\ genExc # "none" => (genExc = "SchemaError" /\ ~dbOk /\ sqlResp = NoResponse)
    /\ sqlResp.kind \in {"error", "none"}
          => (genExc = "none" /\ Last(genRet).text = SelectOne /\ Last(genRet).fallback)
    /\ (cmd \in {"ask", "answer"} /\ sqlResp # NoResponse)
          => Contains(calls, "validate_sql") \/ pc = "validate"

C9_Witness ==
    /\ cmd = "ask"
    /\ sqlResp.kind = "error"
    /\ sql = SelectOne
    /\ pc = "validate"

\* the record generate_sql writes for its last return
LastGenRecord(g) == LogRecord(Last(g).q, "sql", Last(g).text)

\* C10 as stated: every call of generate_sql that returns a statement, the
\* model's or the fallback, appends exactly one record holding the question
\* and the returned statement to the audit log, and no record already in the
\* log is changed or removed.
C10_EveryReturnLogged ==
    [][ /\ Len(auditLog') >= Len(auditLog)
        /\ SubSeq(auditLog', 1, Len(auditLog)) = auditLog
        /\ Len(genRet') = Len(genRet) + 1
              => auditLog' = Append(auditLog, LastGenRecord(genRet')) ]_vars

\* C10 as amended: a call of generate_sql that returns the model's statement
\* appends exactly one record holding the question and the returned statement
\* when the log can be written and none when it cannot; a call that returns
\* the 'SELECT 1' fallback appends none; no record already in the log is
\* changed or removed.
C10_ModelStatementLogged ==
    [][ /\ Len(auditLog') >= Len(auditLog)
        /\ SubSeq(auditLog', 1, Len(auditLog)) = auditLog
        /\ Len(genRet') = Len(genRet) + 1
              => auditLog' = IF ~Last(genRet').fallback /\ logOk
                             THEN Append(auditLog, LastGenRecord(genRet'))
                             ELSE auditLog ]_vars

C10_Witness ==
    /\ genRet # <<>>
    /\ ~Last(genRet).fallback
    /\ Last(genRet).text = Lower(SelectOne) \o <<";">>
    /\ auditLog # <<>>
    /\ Last(auditLog) = LastGenRecord(genRet)

\* the question has been through validate_sql in ask or answer and was rejected
RejectedInCommand == cmd \in {"ask", "answer"} /\ vres.res \in {"ValueError", "DatabaseError"}

\* C11: when the model returned a well-formed answer, generate_sql returns the
\* model's statement (trimmed, not the fallback) and detect_intent returns the
\* model's intent (trimmed, lower-cased), and neither raises, whether the
\* append to the audit log succeeds or fails.
C11_LogFailureKeepsMainPath ==
    /\ sqlResp.kind = "parsed" =>
          /\ genExc = "none"
          /\ genRet # <<>>
          /\ Last(genRet).text = Strip(sqlResp.text)
          /\ ~Last(genRet).fallback
    /\ intentResp.kind = "parsed" =>
          /\ intentExc = "none"
          /\ intent = Lower(Strip(intentResp.text))

\* the log write failed, and the statement generated is the model's DROP TABLE
C11_Witness ==
    /\ ~logOk
    /\ cmd = "ask"
    /\ intentResp = Parsed(iSql)
    /\ sqlResp = Parsed(DropTable)
    /\ genRet # <<>>
    /\ Last(genRet).text = DropTable
    /\ \A i \in 1..Len(auditLog) : auditLog[i].text # DropTable

\* C12: generate_sql, validate_sql and query_db are reached for a question
\* only while its intent is exactly 'sql'; a classification that yields any
\* other intent makes the classifier's calls only, opens no connection,
\* generates and executes nothing, and echoes the smalltalk message for
\* smalltalk, the help message for help, the unknown-intent message otherwise.
C12_OnlySqlIntentReachesStore ==
    /\ [](pc \in {"generate", "execute"} \/ (pc = "validate" /\ cmd # "validate_sql")
             => intent = iSql)
    /\ [][pc = "classify" /\ intent' # iSql =>
             /\ calls' = calls \o <<"detect_intent", "generate_content">>
             /\ genRet' = genRet
             /\ executed' = executed
             /\ vres' = vres
             /\ connLog' = connLog
             /\ table' = table
             /\ Len(out') > Len(out)
             /\ out'[Len(out) + 1].tag =
                   (IF intent' = iSmalltalk THEN "INFORMAL_MSG"
                    ELSE IF intent' = iHelp THEN "HELP_MSG"
                    ELSE "UNKNOWN_INTENT_MSG")]_vars

\* a question classified as something outside the enumeration has ended with
\* the unknown-intent message and nothing else
C12_Witness ==
    /\ cmd = "answer"
    /\ pc = "done"
    /\ intent = <<"j","o","k","e">>
    /\ Len(out) = 1
    /\ out[1].tag = "UNKNOWN_INTENT_MSG"
    /\ calls = <<"get_llm_client", "detect_intent", "generate_content">>
    /\ genRet = <<>>

\* C13: whenever validate_sql raises in ask or answer, the command has ended,
\* its last echo is the fixed invalid-SQL message, no echo carries the text of
\* an exception, and query_db has not been called.
C13_RejectionIsGeneric ==
    RejectedInCommand =>
        /\ pc = "done"
        /\ out # <<>>
        /\ Last(out).tag = "INVALID_SQL_MSG"
        /\ \A i \in 1..Len(out) : out[i].err = "" /\ out[i].tag # "Error"
        /\ executed = <<>>
        /\ \A i \in 1..Len(calls) : calls[i] # "query_db"

\* answer, the dry-run failed: the generic message is all the user sees
C13_Witness ==
    /\ cmd = "answer"
    /\ vres.res = "DatabaseError"
    /\ dryRun = "error"
    /\ pc = "done"
    /\ Len(out) = 1
    /\ out[1].tag = "INVALID_SQL_MSG"
    /\ executed = <<>>

\* C14: in ask and answer, no step that ends with the statement not accepted
\* by validate_sql (before validation, the validation itself with its dry-run,
\* and everything after a rejection) changes the table, so the table after a
\* rejected question is the table before it.
C14_RejectedLeavesStore ==
    [][cmd' \in {"ask", "answer"} /\ vres'.res # "True" => table' = table]_vars

\* DROP TABLE was generated and rejected, the table still holds its rows
C14_Witness ==
    /\ cmd = "ask"
    /\ pc = "done"
    /\ sql = DropTable
    /\ vres.res = "ValueError"
    /\ table = Table(<<1, 2>>)
    /\ Last(out).tag = "INVALID_SQL_MSG"

\* C15: no exception escapes ask, answer or demo: every failure ends in an
\* echo of the command, none in an exception raised out of the command.
C15_NoExceptionEscapes ==
    cmd \in {"ask", "answer", "demo"} => escaped = "none"

\* the tags of the echoes made so far
OutTags == [i \in 1..Len(out) |-> out[i].tag]

\* C16: on the sql path of ask and answer, with no execution failure, the
\* output is the statement and the result rows (ask, validation passed), or
\* the invalid-SQL message alone (validation failed), or the result rows alone
\* (answer): a rejected statement is never echoed, answer never echoes SQL.
C16_OutputShapes ==
    /\ cmd \in {"ask", "answer"}
    /\ pc = "done"
    /\ genRet # <<>>
    /\ \A i \in 1..Len(out) : out[i].tag # "Error"
    => \/ cmd = "ask" /\ vres.res = "True" /\ OutTags = <<"SQL", "Result">>
       \/ vres.res # "True" /\ OutTags = <<"INVALID_SQL_MSG">>
       \/ cmd = "answer" /\ vres.res = "True" /\ OutTags = <<"Answer">>

\* C17: a statement rejected by the keyword rule or the separator rule was
\* rejected before any dry-run: validate_sql opened no connection and sent no
\* EXPLAIN for it; and the keyword rule is applied before the separator rule.
C17_TextualRulesBeforeDryRun ==
    /\ vres.res = "ValueError" =>
          /\ ~vres.dry
          /\ vres.explained = <<>>
          /\ dryRun = "none"
          /\ \A i \in 1..Len(connLog) : connLog[i].op # "validate_sql"
          /\ \A i \in 1..Len(calls) : calls[i] # "explain"
    /\ ValidationEnded /\ ~BeginsWithSelect(sql) => vres.msg = "only_select"

\* the two-statement text was rejected by the separator rule on a reachable
\* store; the only connection opened was the schema lookup's
C17_Witness ==
    /\ cmd = "ask"
    /\ dbOk
    /\ sql = SelectOne \o <<";", " ">> \o DropTable
    /\ vres.msg = "one_statement"
    /\ connLog = ConnScope("get_table_schema_str", TRUE, FALSE)

\* the number of connections opened and not yet closed
OpenConnections ==
    Cardinality({ i \in 1..Len(connLog) : connLog[i].ev = "open" })
        - Cardinality({ i \in 1..Len(connLog) : connLog[i].ev = "close" })

\* C18: every store operation opens its own connection and closes it before
\* it returns or raises: the connection events come in pairs, an open followed
\* at once by the close of the same operation, so no operation works on a
\* connection another one opened, and between operations none is open (the
\* only open connection is import_csv's own while import_csv is running).
C18_ConnectionsScopedPerOperation ==
    /\ \A i \in 1..Len(connLog) :
          IF i % 2 = 1
          THEN /\ connLog[i].ev = "open"
               /\ i < Len(connLog) => connLog[i + 1].op = connLog[i].op
          ELSE connLog[i].ev = "close"
    /\ pc # "import_insert" => OpenConnections = 0
    /\ pc = "import_insert" =>
          OpenConnections = 1 /\ Last(connLog) = [op |-> "import_csv", ev |-> "open"]

\* query_db has just raised on a reachable store, and its connection is closed
C18_Witness ==
    /\ cmd = "answer"
    /\ pc = "done"
    /\ dbOk
    /\ executed # <<>>
    /\ Last(calls) = "query_db"
    /\ Last(out).tag = "Error"
    /\ Last(connLog) = [op |-> "query_db", ev |-> "close"]
    /\ OpenConnections = 0

\* the model call of the last generate_sql failed or gave no parsed answer
GenerationDegraded == sqlResp.kind \in {"error", "none"}

\* the echoes of the question demo processed last
DemoLastEchoes ==
    IF out # <<>> /\ Last(out).tag = "Question" THEN SubSeq(out, 1, Len(out) - 1) ELSE out

\* C19: when the model fails during SQL generation (the store being
\* reachable, or generate_sql would not have reached the model), the statement
\* is the fallback 'SELECT 1'; in ask and answer it passes both textual rules
\* and the dry-run, is executed, and the command ends with the rows of
\* 'SELECT 1'; no error and no invalid-SQL message is echoed for the question.
\* demo executes the fallback as well and echoes its rows.
C19_DegradedGenerationIsAnswered ==
    /\ GenerationDegraded /\ cmd \in {"ask", "answer"} =>
          /\ dbOk
          /\ Last(genRet).fallback
          /\ sql = SelectOne
          /\ \A i \in 1..Len(out) : out[i].tag \notin {"Error", "INVALID_SQL_MSG"}
          /\ ValidationEnded => vres.res = "True" /\ vres.dry /\ dryRun = "ok"
          /\ pc = "done" =>
                /\ executed = <<SelectOne>>
                /\ Last(out).tag = (IF cmd = "ask" THEN "Result" ELSE "Answer")
                /\ Last(out).rows = <<1>>
    /\ GenerationDegraded /\ cmd = "demo" /\ Last(calls) = "query_db" =>
          /\ Last(executed) = SelectOne
          /\ Last(DemoLastEchoes).tag = "Answer"
          /\ Last(DemoLastEchoes).rows = <<1>>

\* the model call raised, and ask has ended with the rows of 'SELECT 1'
C19_Witness ==
    /\ cmd = "ask"
    /\ pc = "done"
    /\ sqlResp = CallError
    /\ validated = {SelectOne}
    /\ executed = <<SelectOne>>
    /\ OutTags = <<"SQL", "Result">>
    /\ Last(out).rows = <<1>>

\* C20: after a successful import_csv the table holds exactly the rows of the
\* CSV, whatever it held before; so it holds the same rows after the second
\* successful import in a row as after the first.
C20_ImportReplaces ==
    cmd = "init" /\ pc = "done" /\ out # <<>> /\ Last(out).tag = "INIT_DONE_MSG"
        => table = Table(CsvRows)

\* two imports in a row have succeeded, the second on a table holding the
\* rows of the first
C20_Witness ==
    /\ cmd = "init"
    /\ pc = "done"
    /\ imports = 2
    /\ OutTags = <<"INIT_DONE_MSG", "INIT_DONE_MSG">>
    /\ table = Table(CsvRows)

\* C21: import_csv is not atomic. Between its two commits the committed table
\* is empty, so a query of a second process that succeeds there reads no row,
\* neither an old one nor one of the CSV; and when an INSERT fails, import_csv
\* ends with the table empty, its previous rows lost.
C21_ImportNotAtomic ==
    /\ [](/\ pc = "import_insert" => table = Table(<<>>)
          /\ \A i \in 1..Len(observed) :
                observed[i].at = "import_insert" /\ observed[i].exc = "none"
                    => observed[i].rows = <<>>)
    /\ [][pc = "import_insert" /\ pc' = "done" /\ Last(out').tag = "Error"
             => table' = Table(<<>>)]_vars

\* the second import, over the rows of the first, was seen empty by a query
\* between its commits, then failed at an INSERT and left the table empty
C21_Witness ==
    /\ cmd = "init"
    /\ pc = "done"
    /\ imports = 2
    /\ OutTags = <<"INIT_DONE_MSG", "Error">>
    /\ Last(connLog) = [op |-> "import_csv", ev |-> "close"]
    /\ table = Table(<<>>)
    /\ observed = << [at |-> "done", exc |-> "none", rows |-> CsvRows,
                      conn |-> ConnScope("query_db", TRUE, FALSE)],
                     [at |-> "import_insert", exc |-> "none", rows |-> <<>>,
                      conn |-> ConnScope("query_db", TRUE, FALSE)] >>

====
